---- MODULE Spec2Model ----
(***************************************************************************)
(* State-machine model of MapView (src/src/map-view.ts): the Bases map     *)
(* view that rebuilds Leaflet markers on every data update and loads a     *)
(* vault image as the map's ground overlay.                                *)
(*                                                                         *)
(* JavaScript strings are sequences of one-character strings, so that      *)
(* trim(), split() and toLowerCase() are computed and not assumed.         *)
(* null / undefined are the record Null; every optional value is a record  *)
(* so that it can be compared with Null.                                   *)
(***************************************************************************)
EXTENDS Integers, Sequences, FiniteSets, TLC

\* ---------------------------------------------------------------- bounds
\* rows of one data update
MaxRows == 2
\* marker handles ever created (this.markers is never emptied)
MaxMarkers == 3
\* loadImage invocations that reach the file lookup
MaxLoads == 2
\* length of the strings handed to readCoords
MaxStrLen == 3

\* ---------------------------------------------------------------- values
Null == [null |-> TRUE]

EmptyStr == << >>

\* vault-relative paths used as inputs
PathA == <<"a", ".", "p", "n", "g">>
PathB == <<"b", ".", "J", "P", "G">>
PathC == <<"c", ".", "t", "x", "t">>
PathGone == <<"g", "o", "n", "e">>

\* ---------------------------------------------------------------- strings
IsSpace(ch) == ch = " "

RECURSIVE TrimStart(_)
TrimStart(s) ==
    IF s = << >> THEN << >>
    ELSE IF IsSpace(Head(s)) THEN TrimStart(Tail(s)) ELSE s

RECURSIVE TrimEnd(_)
TrimEnd(s) ==
    IF s = << >> THEN << >>
    ELSE IF IsSpace(s[Len(s)]) THEN TrimEnd(SubSeq(s, 1, Len(s) - 1)) ELSE s

\* String.prototype.trim
Trim(s) == TrimEnd(TrimStart(s))

\* String.prototype.split(sep) for a one-character separator: always at
\* least one token, empty tokens are kept.
RECURSIVE Split(_, _)
Split(s, sep) ==
    IF \A i \in 1..Len(s) : s[i] # sep THEN << s >>
    ELSE LET i == CHOOSE j \in 1..Len(s) :
                     s[j] = sep /\ \A k \in 1..(j - 1) : s[k] # sep
         IN  << SubSeq(s, 1, i - 1) >> \o Split(SubSeq(s, i + 1, Len(s)), sep)

UpperLetters ==
    <<"A", "B", "C", "D", "E", "F", "G", "H", "I", "J", "K", "L", "M",
      "N", "O", "P", "Q", "R", "S", "T", "U", "V", "W", "X", "Y", "Z">>

LowerLetters ==
    <<"a", "b", "c", "d", "e", "f", "g", "h", "i", "j", "k", "l", "m",
      "n", "o", "p", "q", "r", "s", "t", "u", "v", "w", "x", "y", "z">>

LowerOf(ch) ==
    IF \E i \in 1..26 : UpperLetters[i] = ch
    THEN LowerLetters[CHOOSE i \in 1..26 : UpperLetters[i] = ch]
    ELSE ch

\* String.prototype.toLowerCase for the letters A-Z
ToLowerCase(s) == [i \in 1..Len(s) |-> LowerOf(s[i])]

\* ---------------------------------------------------------------- getMimeType
MimeTable ==
    { << <<"p", "n", "g">>, "image/png" >>,
      << <<"j", "p", "g">>, "image/jpeg" >>,
      << <<"j", "p", "e", "g">>, "image/jpeg" >>,
      << <<"g", "i", "f">>, "image/gif" >>,
      << <<"b", "m", "p">>, "image/bmp" >>,
      << <<"w", "e", "b", "p">>, "image/webp" >>,
      << <<"s", "v", "g">>, "image/svg+xml" >>,
      << <<"t", "i", "f", "f">>, "image/tiff" >>,
      << <<"t", "i", "f">>, "image/tiff" >> }

\* The properties mimeTypes inherits from Object.prototype, each with the
\* text its value has inside the data URL template.
InheritedProperties ==
    { << <<"c", "o", "n", "s", "t", "r", "u", "c", "t", "o", "r">>,
         "function Object() { [native code] }" >>,
      << <<"h", "a", "s", "O", "w", "n", "P", "r", "o", "p", "e", "r", "t", "y">>,
         "function hasOwnProperty() { [native code] }" >>,
      << <<"i", "s", "P", "r", "o", "t", "o", "t", "y", "p", "e", "O", "f">>,
         "function isPrototypeOf() { [native code] }" >>,
      << <<"p", "r", "o", "p", "e", "r", "t", "y", "I", "s", "E", "n", "u", "m", "e", "r", "a", "b", "l", "e">>,
         "function propertyIsEnumerable() { [native code] }" >>,
      << <<"t", "o", "L", "o", "c", "a", "l", "e", "S", "t", "r", "i", "n", "g">>,
         "function toLocaleString() { [native code] }" >>,
      << <<"t", "o", "S", "t", "r", "i", "n", "g">>,
         "function toString() { [native code] }" >>,
      << <<"v", "a", "l", "u", "e", "O", "f">>,
         "function valueOf() { [native code] }" >>,
      << <<"_", "_", "d", "e", "f", "i", "n", "e", "G", "e", "t", "t", "e", "r", "_", "_">>,
         "function __defineGetter__() { [native code] }" >>,
      << <<"_", "_", "d", "e", "f", "i", "n", "e", "S", "e", "t", "t", "e", "r", "_", "_">>,
         "function __defineSetter__() { [native code] }" >>,
      << <<"_", "_", "l", "o", "o", "k", "u", "p", "G", "e", "t", "t", "e", "r", "_", "_">>,
         "function __lookupGetter__() { [native code] }" >>,
      << <<"_", "_", "l", "o", "o", "k", "u", "p", "S", "e", "t", "t", "e", "r", "_", "_">>,
         "function __lookupSetter__() { [native code] }" >>,
      << <<"_", "_", "p", "r", "o", "t", "o", "_", "_">>, "[object Object]" >> }

\* mimeTypes[extension] || 'image/png': the lookup finds the entries of the
\* table and the properties an object literal inherits, all of them truthy.
getMimeType(extension) ==
    IF \E e \in MimeTable : e[1] = extension
    THEN (CHOOSE e \in MimeTable : e[1] = extension)[2]
    ELSE IF \E e \in InheritedProperties : e[1] = extension
    THEN (CHOOSE e \in InheritedProperties : e[1] = extension)[2]
    ELSE "image/png"

\* imagePath.split('.').pop()?.toLowerCase(), then `extension || ''`
ExtensionOf(imagePath) ==
    LET parts == Split(imagePath, ".")
    IN  ToLowerCase(parts[Len(parts)])

\* ---------------------------------------------------------------- readCoords
NaN == [nan |-> TRUE]

DigitValue(ch) ==
    CASE ch = "0" -> 0 [] ch = "1" -> 1 [] ch = "2" -> 2 [] ch = "3" -> 3
      [] ch = "4" -> 4 [] ch = "5" -> 5 [] ch = "6" -> 6 [] ch = "7" -> 7
      [] ch = "8" -> 8 [] ch = "9" -> 9 [] OTHER -> -1

IsDigit(ch) == DigitValue(ch) >= 0

RECURSIVE DigitsValue(_)
DigitsValue(s) ==
    IF s = << >> THEN 0
    ELSE 10 * DigitsValue(SubSeq(s, 1, Len(s) - 1)) + DigitValue(s[Len(s)])

\* A number is the record [num |-> m, scale |-> k] standing for m / 10^k,
\* with no trailing zero in the fraction (k = 0 or m not a multiple of 10).
RECURSIVE Normalized(_, _)
Normalized(m, k) ==
    IF k > 0 /\ m % 10 = 0 THEN Normalized(m \div 10, k - 1)
    ELSE [num |-> m, scale |-> k]

\* the digits of a decimal literal without its sign: at most one ".", at
\* least one digit, nothing else
IsDecimal(u) ==
    /\ \E i \in 1..Len(u) : IsDigit(u[i])
    /\ \A i \in 1..Len(u) : IsDigit(u[i]) \/ u[i] = "."
    /\ Cardinality({i \in 1..Len(u) : u[i] = "."}) <= 1

\* the digits of u with the "." taken out
DigitsOf(u) == SelectSeq(u, IsDigit)

\* the number of digits after the "." (0 without one)
FractionLen(u) ==
    IF \E i \in 1..Len(u) : u[i] = "."
    THEN Len(u) - (CHOOSE i \in 1..Len(u) : u[i] = ".")
    ELSE 0

\* mutant of Number: parseInt, the fraction is dropped
NumberParseInt(tok) ==
    LET t == Trim(tok)
        signed == t # << >> /\ Head(t) \in {"-", "+"}
        u == IF signed THEN Tail(t) ELSE t
        whole == SubSeq(u, 1, Len(u) - FractionLen(u))
        m == DigitsValue(DigitsOf(whole))
    IN  IF t = << >> THEN [num |-> 0, scale |-> 0]
        ELSE IF IsDecimal(u)
             THEN [num |-> IF signed /\ Head(t) = "-" THEN 0 - m ELSE m,
                   scale |-> 0]
             ELSE NaN

\* Number(string) over the alphabet digits, ".", "+", "-", " " and "x":
\* surrounding white space is ignored, the empty string is 0, an optionally
\* signed decimal literal is its value, anything else is NaN.  (Exponents,
\* hexadecimal literals and Infinity are outside this alphabet; -0 is 0.)
Number(tok) ==
    LET t == Trim(tok)
        signed == t # << >> /\ Head(t) \in {"-", "+"}
        u == IF signed THEN Tail(t) ELSE t
        m == DigitsValue(DigitsOf(u))
    IN  IF t = << >> THEN [num |-> 0, scale |-> 0]
        ELSE IF IsDecimal(u)
             THEN Normalized(IF signed /\ Head(t) = "-" THEN 0 - m ELSE m,
                             FractionLen(u))
             ELSE NaN

\* mutant of readCoords: an arity of two is enforced
readCoordsFirstTwo(c) ==
    LET toks == Split(c, ",")
        n == IF Len(toks) > 2 THEN 2 ELSE Len(toks)
    IN  [i \in 1..n |-> Number(toks[i])]

\* c.split(',').map((n) => Number(n))
readCoords(c) ==
    LET toks == Split(c, ",")
    IN  [i \in 1..Len(toks) |-> Number(toks[i])]

\* ---------------------------------------------------------------- host data
\* Result of entry.getValue(coordinatesProp): a StringValue, null when the
\* note has no such property, or an exception.
ValueOneTwo == [t |-> "value", s |-> <<" ", "1", ",", "2">>]
ValueMissing == [t |-> "null"]
ValueThrows == [t |-> "throws"]

Lookups == {ValueOneTwo, ValueMissing, ValueThrows}

\* this.data: absent, or the rows of the query result; row i is the entry
\* of note i.
RowSets == UNION {[1..n -> Lookups] : n \in 0..MaxRows}

DataValues == {Null} \cup {[data |-> r] : r \in RowSets}

PropCoords == [id |-> "note.coords"]

\* config.getAsPropertyId('coordinates')
PropValues == {Null, PropCoords}

\* config.get('mapImage'): not set, not a string, or a string
ImageConfigs ==
    {[t |-> "undefined"], [t |-> "number"]}
    \cup {[t |-> "string", s |-> x] :
            x \in {EmptyStr, <<" ">>, PathA, <<" ">> \o PathA \o <<" ">>,
                   PathB, PathC, PathGone}}

\* ---------------------------------------------------------------- vault
\* app.vault.getFileByPath: the files that exist
VaultFiles == {PathA, PathB, PathC}

\* the bytes app.vault.readBinary resolves with
FileBytes(path) ==
    CASE path = PathA -> <<1>>
      [] path = PathB -> <<2>>
      [] OTHER -> <<3>>

\* arrayBufferToBase64: an injective encoding of the bytes
arrayBufferToBase64(bytes) == [b64 |-> bytes]

\* `data:${mimeType};base64,${base64}`
DataUrl(imagePath) ==
    [mime |-> getMimeType(ExtensionOf(imagePath)),
     base64 |-> arrayBufferToBase64(FileBytes(imagePath))]

\* What the browser's Image decodes from a data URL: pixel width and
\* height, or Null when the bytes are not an image (onerror).
Decoded(dataUrl) ==
    CASE dataUrl.base64 = [b64 |-> <<1>>] -> [width |-> 4, height |-> 3]
      [] dataUrl.base64 = [b64 |-> <<2>>] -> [width |-> 2, height |-> 5]
      [] OTHER -> Null

\* the object written to this.imageDimensions by img.onload; the ratio is
\* kept as the fraction width / height
ImageDimensions(img) ==
    [width |-> img.width, height |-> img.height,
     aspectRatio |-> <<img.width, img.height>>]

\* ---------------------------------------------------------------- state
VARIABLES
    \* fields of MapView
    localImageData, imageDimensions, localImagePath, imageOverlay,
    markers, coordinatesProp,
    \* the row set the host handed to the view: this.data
    data,
    \* the Leaflet map: image overlays and markers on it, last fitBounds
    mapOverlays, mapMarkers, viewport,
    \* every loadImage invocation that found its file, in start order, with
    \* the point it is suspended at or how it ended
    loads,
    \* the last onDataUpdated ended with an exception thrown to the host
    hostException,
    \* history: the last step taken and the load it belongs to
    lastEvent, lastLoad,
    \* history: what the last step did to the overlay on the map: "none",
    \* "installed", "replaced" (one removed, one installed) or "removed"
    overlayStep,
    \* history: newLocalImagePath of the latest data update and the load it
    \* started (0: no file lookup, -1: the lookup found no file)
    cfgPath, curLoad,
    \* history: when the latest data update configured the same non-empty
    \* path as the update before it, what had become of the load that update
    \* started by the time the latest one arrived ("none" otherwise)
    sameAgain,
    \* history: length of this.markers before the latest data update
    tracked0,
    \* history: the load that completed successfully most recently
    lastOk,
    \* history: the binding and the markers on the map before the latest
    \* data update
    prop0, onMap0,
    \* history: some load has failed (file missing, read or decode error);
    \* some data update arrived while a load was in flight
    everFailed, everRaced,
    \* the argument and the result of a call of one of the module's pure
    \* functions (Null: not called)
    fnIn, fnOut

imageVars == <<localImageData, imageDimensions, localImagePath, imageOverlay,
               mapOverlays, viewport>>

markerVars == <<markers, mapMarkers>>

historyVars == <<lastEvent, lastLoad, overlayStep, cfgPath, curLoad, sameAgain, tracked0,
                 lastOk>>

\* the history added for the later claims, and the pure-function harness
moreHistoryVars == <<prop0, onMap0, everFailed, everRaced>>

fnVars == <<fnIn, fnOut>>

vars == <<localImageData, imageDimensions, localImagePath, imageOverlay,
          markers, coordinatesProp, data, mapOverlays, mapMarkers,
          viewport, loads, hostException, lastEvent, lastLoad, overlayStep,
          cfgPath,
          curLoad, sameAgain, tracked0, lastOk, prop0, onMap0, everFailed,
          everRaced, fnIn, fnOut>>

\* the view after construction: no image, no markers, the map centred on
\* [0, 0] at zoom 1
InitView ==
    /\ localImageData = Null
    /\ imageDimensions = Null
    /\ localImagePath = EmptyStr
    /\ imageOverlay = Null
    /\ markers = << >>
    /\ coordinatesProp = Null
    /\ data = Null
    /\ mapOverlays = {}
    /\ mapMarkers = {}
    /\ viewport = [center |-> <<0, 0>>, zoom |-> 1]
    /\ loads = << >>
    /\ hostException = FALSE
    /\ lastEvent = "constructed"
    /\ lastLoad = 0
    /\ overlayStep = "none"
    /\ cfgPath = EmptyStr
    /\ curLoad = 0
    /\ sameAgain = "none"
    /\ tracked0 = 0
    /\ lastOk = 0
    /\ prop0 = Null
    /\ onMap0 = {}
    /\ everFailed = FALSE
    /\ everRaced = FALSE

\* the view as constructed, no pure function called
Init == InitView /\ fnIn = Null /\ fnOut = Null

\* ---------------------------------------------------------------- overlay
\* the part of the state the overlay functions work on
OverlayState == [imageOverlay |-> imageOverlay, mapOverlays |-> mapOverlays,
                 viewport |-> viewport]

\* mutant of clearImageOverlay: the reference is dropped but the layer is
\* left on the map
clearImageOverlayKeepsLayer(st) ==
    IF st.imageOverlay # Null
    THEN [st EXCEPT !.imageOverlay = Null]
    ELSE st

clearImageOverlay(st) ==
    IF st.imageOverlay # Null
    THEN [st EXCEPT !.mapOverlays = st.mapOverlays \ {st.imageOverlay},
                    !.imageOverlay = Null]
    ELSE st

\* [[0, 0], [height, width]]
BoundsOf(dims) == << <<0, 0>>, <<dims.height, dims.width>> >>

\* id: the identity of the L.ImageOverlay object created by this call
updateImageOverlay(st, imageData, dims, id) ==
    LET c == clearImageOverlay(st)
    IN  IF imageData = Null \/ dims = Null THEN c
        ELSE LET o == [id |-> id, url |-> imageData, bounds |-> BoundsOf(dims)]
             IN  [imageOverlay |-> o,
                  mapOverlays |-> c.mapOverlays \cup {o},
                  viewport |-> [fit |-> BoundsOf(dims)]]

\* what a step that takes the overlay reference from `before` to `after`
\* did to the overlay on the map
OverlayChange(before, after) ==
    IF after = Null
    THEN IF before = Null THEN "none" ELSE "removed"
    ELSE IF before = Null THEN "installed" ELSE "replaced"

\* ---------------------------------------------------------------- markers
\* extractCoordinates: null without a binding; a lookup that throws, and a
\* null value (value.toString() throws a TypeError), are caught and give
\* null; otherwise the trimmed string is parsed.
extractCoordinates(prop, lookup) ==
    IF prop = Null THEN Null
    ELSE IF lookup.t = "value" THEN readCoords(Trim(lookup.s))
    ELSE Null

\* The position L.marker(c) gives the marker: null for null, the pair for an
\* array of two numbers.  The rows of this model hold "lat,lng" strings of
\* two numbers, no value, or a failing lookup, so no other array reaches it.
MarkerLatLng(c) ==
    IF c = Null THEN Null
    ELSE IF Len(c) = 2 /\ c[1] # NaN /\ c[2] # NaN
         THEN [lat |-> c[1], lng |-> c[2]]
         ELSE Null

\* the rows of d whose marker has no position
Unplaced(prop, rows) ==
    {i \in 1..Len(rows) : MarkerLatLng(extractCoordinates(prop, rows[i])) = Null}

\* mutant of updateMarkers: the early return comes before the removal of the
\* tracked markers
updateMarkersGuardFirst(tracked, onMap, prop, d, addToThrows) ==
    LET removed == onMap \ {tracked[i].id : i \in 1..Len(tracked)}
    IN  IF d = Null \/ prop = Null
        THEN [markers |-> tracked, mapMarkers |-> onMap, thrown |-> FALSE]
        ELSE LET rows == d.data
                 bad == Unplaced(prop, rows)
                 thrown == addToThrows /\ bad # {}
                 n == IF thrown
                      THEN CHOOSE i \in bad : \A j \in bad : i <= j
                      ELSE Len(rows)
                 created == [i \in 1..n |->
                               [id |-> Len(tracked) + i,
                                latlng |-> MarkerLatLng(
                                    extractCoordinates(prop, rows[i])),
                                popup |-> i]]
             IN  [markers |-> tracked \o created,
                  mapMarkers |-> removed \cup {created[i].id : i \in 1..n},
                  thrown |-> thrown]

\* updateMarkers.  Every tracked marker is removed from the map; this.markers
\* itself is not emptied.  Without map, data or binding nothing more
\* happens.  Otherwise each row gets a marker that is pushed to this.markers
\* and then added to the map, whatever extractCoordinates returned.  Adding
\* a marker without a position is Leaflet's business: with addToThrows the
\* call throws at the first such row (the marker is already tracked and
\* registered as a layer of the map) and the loop is abandoned.
\* Result: the new this.markers, the markers on the map, and whether the
\* exception left updateMarkers.
updateMarkers(tracked, onMap, prop, d, addToThrows) ==
    LET removed == onMap \ {tracked[i].id : i \in 1..Len(tracked)}
    IN  IF d = Null \/ prop = Null
        THEN [markers |-> tracked, mapMarkers |-> removed, thrown |-> FALSE]
        ELSE LET rows == d.data
                 bad == Unplaced(prop, rows)
                 thrown == addToThrows /\ bad # {}
                 n == IF thrown
                      THEN CHOOSE i \in bad : \A j \in bad : i <= j
                      ELSE Len(rows)
                 created == [i \in 1..n |->
                               [id |-> Len(tracked) + i,
                                latlng |-> MarkerLatLng(
                                    extractCoordinates(prop, rows[i])),
                                popup |-> i]]
             IN  [markers |-> tracked \o created,
                  mapMarkers |-> removed \cup {created[i].id : i \in 1..n},
                  thrown |-> thrown]

\* ---------------------------------------------------------------- loadConfig
\* (localImageConfig && typeof localImageConfig === 'string')
\*     ? localImageConfig.trim() : ''
NewLocalImagePath(mapImage) ==
    IF mapImage.t = "string" /\ mapImage.s # EmptyStr
    THEN Trim(mapImage.s)
    ELSE EmptyStr

\* first line of loadImage
LoadImageReturnsEarly(imagePath, current) ==
    imagePath = EmptyStr \/ imagePath = current

\* mutant of ConfigStep: a change to the empty path is ignored
ConfigStepIgnoresEmpty(newPath, current) ==
    IF newPath = current \/ newPath = EmptyStr THEN "noop"
    ELSE IF LoadImageReturnsEarly(newPath, current) THEN "noop"
    ELSE IF newPath \in VaultFiles THEN "started"
    ELSE "missing"

\* What the synchronous part of loadConfig does about the image:
\*   "noop"    path unchanged
\*   "clear"   path changed to '': state reset, overlay cleared
\*   "missing" loadImage found no file: data and dimensions reset
\*   "started" loadImage is suspended in readBinary
ConfigStep(newPath, current) ==
    IF newPath = current THEN "noop"
    ELSE IF newPath = EmptyStr THEN "clear"
    ELSE IF LoadImageReturnsEarly(newPath, current) THEN "noop"
    ELSE IF newPath \in VaultFiles THEN "started"
    ELSE "missing"

InFlight == {i \in 1..Len(loads) : loads[i].pc \in {"reading", "decoding"}}

\* What has become of the load a data update started: "none" when it
\* started none, "missing" when the lookup found no file, "inflight",
\* "failed", "ok" when it succeeded and no load succeeded after it, and
\* "overwritten" when it succeeded and another load succeeded after it.
LoadOutcome(l) ==
    IF l = 0 THEN "none"
    ELSE IF l = -1 THEN "missing"
    ELSE IF l \in InFlight THEN "inflight"
    ELSE IF loads[l].pc = "failed" THEN "failed"
    ELSE IF lastOk = l THEN "ok"
    ELSE "overwritten"

\* mutant of CoordinatesPropRead: updateMarkers runs with the binding the
\* previous update left in the field
CoordinatesPropStale(configured, previous) == previous

\* this.coordinatesProp as updateMarkers reads it: the assignment of line 107
\* comes before the first await of loadConfig, so it has run when
\* onDataUpdated calls updateMarkers
CoordinatesPropRead(configured, previous) == configured

\* onDataUpdated: loadConfig up to its first await, then updateMarkers.
DataUpdate(cfg, d, addToThrows) ==
    LET newPath == NewLocalImagePath(cfg.mapImage)
        step == ConfigStep(newPath, localImagePath)
        starts == step = "started"
        id == Len(loads) + 1
        cleared == clearImageOverlay(OverlayState)
        m == updateMarkers(markers, mapMarkers,
                           CoordinatesPropRead(cfg.coordinates, coordinatesProp),
                           d, addToThrows)
    IN  /\ starts => Len(loads) < MaxLoads
        /\ Len(m.markers) <= MaxMarkers
        /\ data' = d
        /\ coordinatesProp' = cfg.coordinates
        /\ localImagePath' = IF step = "clear" THEN EmptyStr ELSE localImagePath
        /\ localImageData' = IF step \in {"clear", "missing"} THEN Null
                             ELSE localImageData
        /\ imageDimensions' = IF step \in {"clear", "missing"} THEN Null
                              ELSE imageDimensions
        /\ imageOverlay' = IF step = "clear" THEN cleared.imageOverlay
                           ELSE imageOverlay
        /\ mapOverlays' = IF step = "clear" THEN cleared.mapOverlays
                          ELSE mapOverlays
        /\ viewport' = viewport
        /\ loads' = IF starts
                    THEN Append(loads, [path |-> newPath, pc |-> "reading",
                                        during |-> InFlight])
                    ELSE loads
        /\ markers' = m.markers
        /\ mapMarkers' = m.mapMarkers
        /\ hostException' = m.thrown
        /\ lastEvent' = step
        /\ lastLoad' = IF starts THEN id ELSE 0
        /\ overlayStep' = IF step = "clear" /\ imageOverlay # Null
                          THEN "removed" ELSE "none"
        /\ sameAgain' = IF newPath # EmptyStr /\ newPath = cfgPath
                        THEN LoadOutcome(curLoad)
                        ELSE "none"
        /\ cfgPath' = newPath
        /\ curLoad' = IF starts THEN id ELSE IF step = "missing" THEN -1 ELSE 0
        /\ tracked0' = Len(markers)
        /\ lastOk' = lastOk
        /\ prop0' = coordinatesProp
        /\ onMap0' = mapMarkers
        /\ everFailed' = (everFailed \/ step = "missing")
        /\ everRaced' = (everRaced \/ InFlight # {})
        /\ UNCHANGED fnVars

\* ---------------------------------------------------------------- loadImage
\* readBinary resolved: the data URL is stored and the decode started
ReadResolved(id) ==
    /\ id \in 1..Len(loads)
    /\ loads[id].pc = "reading"
    /\ localImageData' = DataUrl(loads[id].path)
    /\ loads' = [loads EXCEPT ![id].pc = "decoding"]
    /\ lastEvent' = "readResolved"
    /\ lastLoad' = id
    /\ overlayStep' = "none"
    /\ UNCHANGED <<imageDimensions, localImagePath, imageOverlay, mapOverlays,
                   viewport, markerVars, coordinatesProp, data,
                   hostException, cfgPath, curLoad, sameAgain,
                   tracked0, lastOk, moreHistoryVars, fnVars>>

\* mutant of LoadFailed: the catch block also takes the markers off the map
LoadFailedClearsMarkers(id, event) ==
    /\ localImageData' = Null
    /\ imageDimensions' = Null
    /\ loads' = [loads EXCEPT ![id].pc = "failed"]
    /\ lastEvent' = event
    /\ lastLoad' = id
    /\ overlayStep' = "none"
    /\ everFailed' = TRUE
    /\ mapMarkers' = {}
    /\ UNCHANGED <<localImagePath, imageOverlay, mapOverlays, viewport,
                   markers, coordinatesProp, data, hostException,
                   cfgPath, curLoad, sameAgain, tracked0, lastOk,
                   prop0, onMap0, everRaced, fnVars>>

\* the catch block of loadImage
LoadFailed(id, event) ==
    /\ localImageData' = Null
    /\ imageDimensions' = Null
    /\ loads' = [loads EXCEPT ![id].pc = "failed"]
    /\ lastEvent' = event
    /\ lastLoad' = id
    /\ overlayStep' = "none"
    /\ everFailed' = TRUE
    /\ UNCHANGED <<localImagePath, imageOverlay, mapOverlays, viewport,
                   markerVars, coordinatesProp, data, hostException,
                   cfgPath, curLoad, sameAgain, tracked0, lastOk,
                   prop0, onMap0, everRaced, fnVars>>

\* readBinary rejected (an I/O error)
ReadRejected(id) ==
    /\ id \in 1..Len(loads)
    /\ loads[id].pc = "reading"
    /\ LoadFailed(id, "readRejected")

\* mutant of LoadedPath: the path of the finished load is not recorded
LoadedPathNotRecorded(imagePath, current) == current

\* this.localImagePath = imagePath, once the dimensions are known
LoadedPath(imagePath, current) == imagePath

\* img.onload and the rest of loadImage, which runs in the same turn of the
\* event loop: the dimensions of the decoded image are stored, the path is
\* recorded and the overlay rebuilt from this.localImageData and
\* this.imageDimensions as they are now.
DecodeLoaded(id) ==
    /\ id \in 1..Len(loads)
    /\ loads[id].pc = "decoding"
    /\ Decoded(DataUrl(loads[id].path)) # Null
    /\ LET dims == ImageDimensions(Decoded(DataUrl(loads[id].path)))
           o == updateImageOverlay(OverlayState, localImageData, dims, id)
       IN  /\ imageDimensions' = dims
           /\ localImagePath' = LoadedPath(loads[id].path, localImagePath)
           /\ imageOverlay' = o.imageOverlay
           /\ mapOverlays' = o.mapOverlays
           /\ viewport' = o.viewport
           /\ overlayStep' = OverlayChange(imageOverlay, o.imageOverlay)
    /\ loads' = [loads EXCEPT ![id].pc = "ok"]
    /\ lastEvent' = "decodeLoaded"
    /\ lastLoad' = id
    /\ lastOk' = id
    /\ UNCHANGED <<localImageData, markerVars, coordinatesProp, data,
                   hostException, cfgPath, curLoad, sameAgain,
                   tracked0, moreHistoryVars, fnVars>>

\* img.onerror: the promise rejects and the catch block runs
DecodeError(id) ==
    /\ id \in 1..Len(loads)
    /\ loads[id].pc = "decoding"
    /\ Decoded(DataUrl(loads[id].path)) = Null
    /\ LoadFailed(id, "decodeError")

\* ---------------------------------------------------------------- behaviour
\* a data update with the configuration and rows drawn from the given sets
Update(images, props, datas) ==
    \E img \in images, prop \in props, d \in datas, addToThrows \in BOOLEAN :
        DataUpdate([mapImage |-> img, coordinates |-> prop], d, addToThrows)

LoadStep ==
    \/ \E id \in 1..MaxLoads : ReadResolved(id)
    \/ \E id \in 1..MaxLoads : ReadRejected(id)
    \/ \E id \in 1..MaxLoads : DecodeLoaded(id)
    \/ \E id \in 1..MaxLoads : DecodeError(id)

\* image loading under every image configuration, the view bound to no rows
NextImage ==
    \/ Update(ImageConfigs, {Null}, {Null})
    \/ LoadStep

SpecImage == Init /\ [][NextImage]_vars

\* marker synchronisation under every binding and row set, no image
\* configured
NextMarkers == Update({[t |-> "undefined"]}, PropValues, DataValues)

SpecMarkers == Init /\ [][NextMarkers]_vars

\* the image configurations and the row set of the whole view: no image, a
\* file that decodes and one that does not; one row with coordinates
ViewImages == {[t |-> "undefined"], [t |-> "string", s |-> PathA],
               [t |-> "string", s |-> PathC]}

ViewData == {[data |-> <<ValueOneTwo>>]}

\* marker synchronisation interleaved with image loading
NextView ==
    \/ Update(ViewImages, PropValues, ViewData)
    \/ LoadStep

SpecView == Init /\ [][NextView]_vars

\* ---------------------------------------------------------------- pure functions
\* the characters of the strings handed to readCoords
CoordAlphabet == {"1", "5", ",", ".", "-", " ", "x"}

CoordStrings == UNION {[1..n -> CoordAlphabet] : n \in 0..MaxStrLen}

\* number literals with the value each denotes
NumberLiterals ==
    { [text |-> <<"1">>, value |-> [num |-> 1, scale |-> 0]],
      [text |-> <<"-", "3">>, value |-> [num |-> -3, scale |-> 0]],
      [text |-> <<"1", "2", ".", "5">>, value |-> [num |-> 125, scale |-> 1]],
      [text |-> <<".", "5">>, value |-> [num |-> 5, scale |-> 1]],
      [text |-> <<"5", ".">>, value |-> [num |-> 5, scale |-> 0]],
      [text |-> <<"+", "1", "5">>, value |-> [num |-> 15, scale |-> 0]],
      [text |-> <<"0", ".", "5", "0">>, value |-> [num |-> 5, scale |-> 1]],
      [text |-> <<"-", "1", ".", "2", "5">>, value |-> [num |-> -125, scale |-> 2]],
      [text |-> <<"1", "0">>, value |-> [num |-> 10, scale |-> 0]],
      [text |-> <<"0">>, value |-> [num |-> 0, scale |-> 0]] }

\* the strings "a,b" of two number literals
PairStrings ==
    {la.text \o <<",">> \o lb.text : la \in NumberLiterals, lb \in NumberLiterals}

\* the calls of readCoords that are tried
CoordCalls == {[fn |-> "readCoords", arg |-> c] : c \in CoordStrings \cup PairStrings}

\* readCoords is called with the chosen string
CallReadCoords ==
    /\ fnIn # Null
    /\ fnIn.fn = "readCoords"
    /\ fnOut = Null
    /\ fnOut' = [result |-> readCoords(fnIn.arg)]
    /\ UNCHANGED <<imageVars, markerVars, coordinatesProp, data, loads,
                   hostException, historyVars, moreHistoryVars, fnIn>>

\* the extensions tried: the known ones in lower, upper and mixed case, and
\* unknown ones
MimeTestExtensions ==
    { <<"p", "n", "g">>,
      <<"j", "p", "g">>,
      <<"j", "p", "e", "g">>,
      <<"g", "i", "f">>,
      <<"b", "m", "p">>,
      <<"w", "e", "b", "p">>,
      <<"s", "v", "g">>,
      <<"t", "i", "f", "f">>,
      <<"t", "i", "f">>,
      <<"P", "N", "G">>,
      <<"J", "P", "G">>,
      <<"J", "P", "E", "G">>,
      <<"G", "I", "F">>,
      <<"B", "M", "P">>,
      <<"W", "E", "B", "P">>,
      <<"S", "V", "G">>,
      <<"T", "I", "F", "F">>,
      <<"T", "I", "F">>,
      <<"P", "n", "g">>,
      <<"j", "P", "e", "G">>,
      <<"T", "i", "f">>,
      <<"t", "x", "t">>,
      <<"p", "n">>,
      <<"p", "n", "g", "x">>,
      <<>>,
      <<"m", "d">>,
      <<"c", "o", "n", "s", "t", "r", "u", "c", "t", "o", "r">>,
      <<"_", "_", "p", "r", "o", "t", "o", "_", "_">>,
      <<"t", "o", "s", "t", "r", "i", "n", "g">> }

\* what precedes the last dot
MimeTestStems == {<<"m">>, <<"a", ".", "b">>, <<"d", "/", "m">>}

\* the paths tried: with an extension, and without any dot
MimeTestPaths ==
    {stem \o <<".">> \o ext : stem \in MimeTestStems, ext \in MimeTestExtensions}
    \cup {<<"m", "a", "p">>, <<"g", "i", "f">>, <<"d", "/", "p", "n", "g">>}

MimeCalls == {[fn |-> "mimeType", arg |-> path] : path \in MimeTestPaths}

\* the MIME type loadImage infers for the chosen path
CallMimeType ==
    /\ fnIn # Null
    /\ fnIn.fn = "mimeType"
    /\ fnOut = Null
    /\ fnOut' = [result |-> getMimeType(ExtensionOf(fnIn.arg))]
    /\ UNCHANGED <<imageVars, markerVars, coordinatesProp, data, loads,
                   hostException, historyVars, moreHistoryVars, fnIn>>

\* the pure functions, each called once on an argument chosen at the start
InitPure == InitView /\ fnOut = Null /\ fnIn \in CoordCalls \cup MimeCalls

NextPure == CallReadCoords \/ CallMimeType

SpecPure == InitPure /\ [][NextPure]_vars

\* ================================================================ claims
\* the last step was a data update
AfterUpdate == lastEvent \in {"noop", "clear", "missing", "started"}

\* the rows of the current row set
RowIndexes == IF data = Null THEN {} ELSE 1..Len(data.data)

\* the rows whose coordinate property resolves under the current binding
Resolvable ==
    {i \in RowIndexes : extractCoordinates(coordinatesProp, data.data[i]) # Null}

\* the marker handles created by the latest data update
Fresh == {markers[j] : j \in (tracked0 + 1)..Len(markers)}

\* C1: after each data update the number of markers on the map equals the
\* number of rows of the current row set that have a resolvable coordinate
\* property, and no marker created by an earlier update is on the map.
C1_MarkerCountMatchesRows ==
    AfterUpdate =>
        /\ Cardinality(mapMarkers) = Cardinality(Resolvable)
        /\ \A id \in mapMarkers : id > tracked0

\* C2: in a data update a row whose coordinate property is missing or whose
\* lookup throws is skipped: no marker is created or tracked for it, every
\* other row of the update gets its marker on the map, and no exception
\* reaches the host.
C2_UnresolvableRowSkipped ==
    (AfterUpdate /\ coordinatesProp # Null) =>
        /\ ~hostException
        /\ \A i \in RowIndexes :
              IF i \in Resolvable
              THEN \E m \in Fresh : m.popup = i /\ m.id \in mapMarkers
              ELSE \A m \in Fresh : m.popup # i

C4_MissingFileNoOverlay ==
    lastEvent = "missing" => (mapOverlays = {} /\ imageOverlay = Null)

\* the box [[0, 0], [H, W]] of the image a data URL decodes to
BoxOfImage(url) == << <<0, 0>>, <<Decoded(url).height, Decoded(url).width>> >>

\* C5: whenever an overlay is installed, in runs with overlapping loads
\* too, its bounds are [[0, 0], [H, W]] for the W x H image it shows, and
\* the viewport is fit to exactly that box.
C5_OverlayBoundsOfImage ==
    overlayStep \in {"installed", "replaced"} =>
        /\ Decoded(imageOverlay.url) # Null
        /\ imageOverlay.bounds = BoxOfImage(imageOverlay.url)
        /\ viewport = [fit |-> BoxOfImage(imageOverlay.url)]

\* C6: in every reachable state at most one image overlay is on the map,
\* and it is the one imageOverlay refers to.
C6_AtMostOneOverlay ==
    /\ Cardinality(mapOverlays) <= 1
    /\ mapOverlays = IF imageOverlay = Null THEN {} ELSE {imageOverlay}

\* C6 witness: a load has just replaced the overlay of an earlier load
C6_Witness ==
    /\ overlayStep = "replaced"
    /\ imageOverlay # Null
    /\ imageOverlay.id = 2
    /\ mapOverlays = {imageOverlay}

\* C7: after any failed image load (file missing, read error, decode
\* failure) and after any path clear, localImagePath is empty and
\* localImageData and imageDimensions are null.
C7_FailureResetsImageState ==
    lastEvent \in {"missing", "readRejected", "decodeError", "clear"} =>
        /\ localImagePath = EmptyStr
        /\ localImageData = Null
        /\ imageDimensions = Null

\* C8: right after an image load completes successfully, localImagePath,
\* localImageData, imageDimensions and the installed overlay's image all
\* derive from the file of that load.
C8_SuccessfulLoadConsistent ==
    lastEvent = "decodeLoaded" =>
        LET url == DataUrl(loads[lastLoad].path)
        IN  /\ localImagePath = loads[lastLoad].path
            /\ localImageData = url
            /\ imageDimensions = ImageDimensions(Decoded(url))
            /\ imageOverlay # Null
            /\ imageOverlay.url = url

\* C9: while a load of a path is in flight, a data update configuring the
\* same path starts no second load of it.
C9_NoSecondLoadOfPathInFlight ==
    lastEvent = "started" =>
        \A i \in loads[lastLoad].during : loads[i].path # loads[lastLoad].path

\* C10: when two loads of different paths overlap and both succeed, once
\* both have finished the overlay image, the overlay bounds and
\* localImagePath are those of the load that resolved last.
C10_LastResolvedWins ==
    (/\ lastEvent = "decodeLoaded"
     /\ Len(loads) = 2
     /\ curLoad = 2
     /\ loads[1].pc = "ok" /\ loads[2].pc = "ok"
     /\ 1 \in loads[2].during
     /\ loads[1].path # loads[2].path)
        => LET url == DataUrl(loads[lastLoad].path)
           IN  /\ localImagePath = loads[lastLoad].path
               /\ imageOverlay # Null
               /\ imageOverlay.url = url
               /\ imageOverlay.bounds = BoxOfImage(url)

\* a call of readCoords has returned
ReadCoordsReturned == fnIn # Null /\ fnIn.fn = "readCoords" /\ fnOut # Null

\* the number of commas of a string
CommaCount(c) == Cardinality({i \in 1..Len(c) : c[i] = ","})

\* C11: for every input string readCoords returns an array with one element
\* per comma-separated token (one more than the string has commas), each a
\* number or NaN; no arity is enforced.
C11_LengthIsTokenCount ==
    ReadCoordsReturned =>
        /\ Len(fnOut.result) = CommaCount(fnIn.arg) + 1
        /\ \A i \in 1..Len(fnOut.result) :
              fnOut.result[i] = NaN \/ fnOut.result[i].scale >= 0

\* C11 witness: a string of three tokens has given three elements
C11_Witness ==
    /\ ReadCoordsReturned
    /\ fnIn.arg = <<"1", ",", ",">>
    /\ Len(fnOut.result) = 3

\* C12: for every string "a,b" of two number literals readCoords returns
\* exactly the pair of their values, in that order.
C12_PairOfLiterals ==
    ReadCoordsReturned =>
        \A la \in NumberLiterals, lb \in NumberLiterals :
            fnIn.arg = la.text \o <<",">> \o lb.text
                => fnOut.result = <<la.value, lb.value>>

\* C12 witness: "12.5,-3" has given [12.5, -3]
C12_Witness ==
    /\ ReadCoordsReturned
    /\ fnIn.arg = <<"1", "2", ".", "5", ",", "-", "3">>
    /\ fnOut.result = <<[num |-> 125, scale |-> 1], [num |-> -3, scale |-> 0]>>

\* the known image extensions, each with its own MIME type
OwnMimeTypes ==
    { << <<"p", "n", "g">>, "image/png" >>,
      << <<"j", "p", "g">>, "image/jpeg" >>,
      << <<"j", "p", "e", "g">>, "image/jpeg" >>,
      << <<"g", "i", "f">>, "image/gif" >>,
      << <<"b", "m", "p">>, "image/bmp" >>,
      << <<"w", "e", "b", "p">>, "image/webp" >>,
      << <<"s", "v", "g">>, "image/svg+xml" >>,
      << <<"t", "i", "f", "f">>, "image/tiff" >>,
      << <<"t", "i", "f">>, "image/tiff" >> }

\* the position of the last dot of a path (0: none)
LastDot(path) ==
    IF \E i \in 1..Len(path) : path[i] = "."
    THEN CHOOSE i \in 1..Len(path) :
             path[i] = "." /\ \A j \in (i + 1)..Len(path) : path[j] # "."
    ELSE 0

\* C13: the MIME type inferred for a path is image/png when the path has no
\* extension or an extension that is not a known image extension, and the
\* extension's own MIME type when it is a known one in any letter case.
C13_MimeOfExtension ==
    (fnIn # Null /\ fnIn.fn = "mimeType" /\ fnOut # Null) =>
        LET path == fnIn.arg
            ext == ToLowerCase(SubSeq(path, LastDot(path) + 1, Len(path)))
        IN  IF LastDot(path) # 0 /\ \E e \in OwnMimeTypes : e[1] = ext
            THEN \E e \in OwnMimeTypes : e[1] = ext /\ fnOut.result = e[2]
            ELSE fnOut.result = "image/png"

\* C14: the tracked marker list is discarded and rebuilt by each data update:
\* after the update it holds exactly the handles that update created, and it
\* is never longer than the current row set.
C14_TrackedListRebuilt ==
    AfterUpdate =>
        /\ \A j \in 1..Len(markers) : markers[j] \in Fresh
        /\ Len(markers) <= Cardinality(RowIndexes)

\* C18: after a data update that has no coordinates binding no marker is on
\* the map, whatever the rows and whatever was on the map before.
C18_NoBindingNoMarkers ==
    (AfterUpdate /\ coordinatesProp = Null) => mapMarkers = {}

\* C18 witness: the binding was removed while markers were on the map and
\* the row set still has rows
C18_Witness ==
    /\ AfterUpdate
    /\ coordinatesProp = Null
    /\ prop0 # Null
    /\ onMap0 # {}
    /\ data # Null
    /\ Len(data.data) > 0
    /\ mapMarkers = {}

\* C16: immediately after a data update that configures no image (an empty
\* or whitespace-only path, or a value that is not a string), with or
\* without a load in flight, no image overlay is on the map, localImagePath
\* is empty and localImageData and imageDimensions are null.
C16_NoImageConfiguredEmptyState ==
    (AfterUpdate /\ cfgPath = EmptyStr) =>
        /\ mapOverlays = {}
        /\ imageOverlay = Null
        /\ localImagePath = EmptyStr
        /\ localImageData = Null
        /\ imageDimensions = Null

\* the image on the map is the one the latest data update configured
ShownMatchesConfig ==
    IF cfgPath = EmptyStr
    THEN mapOverlays = {} /\ imageOverlay = Null
    ELSE /\ localImagePath = cfgPath
         /\ imageOverlay # Null
         /\ imageOverlay.url = DataUrl(cfgPath)
         /\ mapOverlays = {imageOverlay}

\* C17 (as stated): in every state with no load in flight in which no load
\* has failed, the image shown matches the configuration of the latest data
\* update: no overlay for the empty path, otherwise localImagePath is that
\* path and the overlay shows that file.
C17_QuiescentShowsConfigured ==
    (InFlight = {} /\ ~everFailed) => ShownMatchesConfig

\* C17 (amended): in every state with no load in flight in which no load
\* has failed and no data update has arrived while a load was in flight,
\* the image shown matches the configuration of the latest data update.
C17_UnracedShowsConfigured ==
    (InFlight = {} /\ ~everFailed /\ ~everRaced) => ShownMatchesConfig

\* C17 witness: the path was changed from one file to another, each update
\* arriving with no load in flight, and both loads have completed
C17_Witness ==
    /\ InFlight = {}
    /\ ~everFailed
    /\ ~everRaced
    /\ Len(loads) = 2
    /\ loads[1].path = PathA
    /\ cfgPath = PathB
    /\ localImagePath = PathB
    /\ imageOverlay # Null
    /\ imageOverlay.url = DataUrl(PathB)

\* C15: in every data update the configuration is read before the markers
\* are rebuilt: the markers an update creates are those of the binding that
\* update read (none without a binding, one per row from the first row on
\* with one), also when the update leaves a load of loadConfig in flight.
C15_MarkersUseBindingOfUpdate ==
    AfterUpdate =>
        /\ coordinatesProp = Null => Fresh = {}
        /\ (coordinatesProp # Null /\ data # Null /\ Len(data.data) > 0)
               => \E m \in Fresh : m.popup = 1
        /\ \A m \in Fresh :
              m.latlng = MarkerLatLng(
                             extractCoordinates(coordinatesProp, data.data[m.popup]))

\* C15 witness: an update that set the binding and started an image load
\* has created its marker while the load is still in flight
C15_Witness ==
    /\ lastEvent = "started"
    /\ InFlight # {}
    /\ prop0 = Null
    /\ coordinatesProp # Null
    /\ Fresh # {}
    /\ \E m \in Fresh : m.id \in mapMarkers /\ m.latlng # Null

\* the step is a resolution or a failure of an image load
IsLoadStep ==
    lastEvent' \in {"readResolved", "readRejected", "decodeLoaded", "decodeError"}

\* the step is a data update
IsUpdateStep == lastEvent' \in {"noop", "clear", "missing", "started"}

\* the markers after a data update are what updateMarkers alone makes of the
\* markers before it
MarkersAsUpdateMarkersLeavesThem ==
    LET m == updateMarkers(markers, mapMarkers, coordinatesProp', data',
                           hostException')
    IN  markers' = m.markers /\ mapMarkers' = m.mapMarkers

\* the image state after a data update is what loadConfig alone makes of the
\* image state before it
ImageAsLoadConfigLeavesIt ==
    /\ lastEvent' \in {"noop", "started"} => UNCHANGED imageVars
    /\ lastEvent' = "missing" =>
          /\ localImageData' = Null
          /\ imageDimensions' = Null
          /\ UNCHANGED <<localImagePath, imageOverlay, mapOverlays, viewport>>
    /\ lastEvent' = "clear" =>
          /\ localImagePath' = EmptyStr
          /\ localImageData' = Null
          /\ imageDimensions' = Null
          /\ imageOverlay' = Null
          /\ mapOverlays' = mapOverlays \ {imageOverlay}
          /\ viewport' = viewport

\* C19: image loading and marker synchronisation leave each other's state
\* alone in every interleaving: a read resolution, decode resolution or
\* failure changes neither the markers on the map nor the tracked list; in
\* a data update the start of a load, a missing file or a path clear adds
\* nothing to what updateMarkers does to the markers, and updateMarkers
\* adds nothing to what loadConfig does to localImagePath, localImageData,
\* imageDimensions and the overlay.
C19_ImageAndMarkersDisjoint ==
    [][/\ IsLoadStep => UNCHANGED markerVars
       /\ IsUpdateStep => (MarkersAsUpdateMarkersLeavesThem
                           /\ ImageAsLoadConfigLeavesIt)]_vars

\* C19 witness: a load has completed and installed its overlay while a
\* marker of an earlier update stays on the map
C19_Witness ==
    /\ lastEvent = "decodeLoaded"
    /\ imageOverlay # Null
    /\ mapMarkers # {}
    /\ Len(markers) > 0

====
